---- MODULE Spec2Model ----
(***************************************************************************)
(* StoriesApp (src/app.js): theme management, genre filtering with timer   *)
(* driven transitions, story data loading and the accessibility status     *)
(* region, as a state machine.                                             *)
(*                                                                         *)
(* Strings whose characters the code inspects (data-genres, data-genre)    *)
(* are tuples of one-character strings, so that toLowerCase() and          *)
(* split(' ') are computed as the code computes them.  Time is counted in  *)
(* units of 100 ms; a timer record carries the time left until it is due.  *)
(* Timers fire in order of their due time, and in creation order when two  *)
(* are due together.  Inline styles (opacity, transform) are presentation  *)
(* only and are not part of the state.                                     *)
(***************************************************************************)
EXTENDS Integers, Sequences, FiniteSets, TLC

(* ------------------------------------------------------------------ *)
(* Bounds                                                             *)
(* ------------------------------------------------------------------ *)
\* filter selections (filterStories calls) allowed in one behaviour
MaxCalls == 2
\* further selections allowed when they select the same genre again
MaxRepeats == 1
\* showNotification calls allowed in one behaviour
MaxShown == 2

(* ------------------------------------------------------------------ *)
(* Program constants, in units of 100 ms                              *)
(* ------------------------------------------------------------------ *)
HideDelay == 3
LogDelay == 4
StatusDelay == 5
\* show timers are index * 100 ms after the call
Stagger == 1
MaxShortcut == 6
\* showNotification: default duration, duration of the error notification,
\* delay of the removal after the slide-out
NotifyDuration == 30
ErrorDuration == 50
RemoveDelay == 3
InitSteps == 7

None == "none"
\* an absent attribute whose value would be a character tuple
Undefined == <<"undefined">>

(* ------------------------------------------------------------------ *)
(* Strings as character tuples                                        *)
(* ------------------------------------------------------------------ *)
sAll == <<"a", "l", "l">>
sHorror == <<"h", "o", "r", "r", "o", "r">>
sComedy == <<"c", "o", "m", "e", "d", "y">>
sDrama == <<"d", "r", "a", "m", "a">>
sDramaCap == <<"D", "r", "a", "m", "a">>
sScifi == <<"s", "c", "i", "f", "i">>
sComedyDrama == sComedy \o <<" ">> \o sDrama
sMyth == <<"m", "y", "t", "h">>
sSaga == <<"s", "a", "g", "a">>
sEmpty == << >>

UpperCase ==
  [c \in {"A", "C", "D", "H", "S"} |->
     CASE c = "A" -> "a" [] c = "C" -> "c" [] c = "D" -> "d"
       [] c = "H" -> "h" [] c = "S" -> "s"]

\* String.prototype.toLowerCase
ToLowerCase(s) ==
  [k \in 1..Len(s) |-> IF s[k] \in DOMAIN UpperCase THEN UpperCase[s[k]] ELSE s[k]]

RECURSIVE SplitFrom(_, _, _)
SplitFrom(s, k, cur) ==
  IF k > Len(s) THEN <<cur>>
  ELSE IF s[k] = " " THEN <<cur>> \o SplitFrom(s, k + 1, << >>)
  ELSE SplitFrom(s, k + 1, Append(cur, s[k]))

\* String.prototype.split(' '): "" gives [""], "a  b" gives ["a", "", "b"]
Split(s) == SplitFrom(s, 1, << >>)

Range(f) == {f[k] : k \in DOMAIN f}

(* ------------------------------------------------------------------ *)
(* Documents: the rendered markup the script is loaded into.          *)
(* A card is one .story-card element; an absent attribute or child    *)
(* element is None.                                                   *)
(* ------------------------------------------------------------------ *)
Card(id, genres) == [id |-> id, genres |-> genres, title |-> "t", synopsis |-> "s"]

ExampleDocument ==
  [cards |-> <<Card("1", sHorror), Card("2", sComedyDrama), Card("3", sDrama)>>,
   buttons |-> <<sAll, sHorror, sComedy, sDrama>>]

\* seven cards: the last one is revealed 600 ms after a selection
LongDocument ==
  [cards |-> <<Card("1", sHorror), Card("2", sHorror), Card("3", sHorror),
               Card("4", sHorror), Card("5", sHorror), Card("6", sHorror),
               Card("7", sDrama)>>,
   buttons |-> <<sAll, sHorror>>]

MixedCaseDocument ==
  [cards |-> <<Card("1", sDramaCap), Card("2", sHorror)>>,
   buttons |-> <<sAll, sDramaCap, sScifi>>]

NoGenresDocument ==
  [cards |-> <<Card("1", sHorror), Card("2", Undefined), Card("3", sHorror)>>,
   buttons |-> <<sAll, sDrama>>]

NoTitleDocument ==
  [cards |-> <<Card("1", sHorror),
               [id |-> "2", genres |-> sDrama, title |-> None, synopsis |-> "s"]>>,
   buttons |-> <<sAll, sDrama>>]

EmptyGenresDocument ==
  [cards |-> <<Card("1", sEmpty), Card(None, sDrama)>>,
   buttons |-> <<sAll, sDrama>>]

\* more filter buttons than there are Alt+digit shortcuts
ManyButtonsDocument ==
  [cards |-> <<Card("1", sHorror)>>,
   buttons |-> <<sAll, sHorror, sComedy, sDrama, sScifi, sMyth, sSaga>>]

Documents ==
  {ExampleDocument, LongDocument, MixedCaseDocument, NoGenresDocument,
   NoTitleDocument, EmptyGenresDocument, ManyButtonsDocument}

\* the digit keys pressed with Alt: '1' .. '7', the six shortcuts and one digit
\* past them
Keys == 1..(MaxShortcut + 1)
NoKey == -1

VARIABLES
  doc,              \* the document: .story-card elements and .filter-btn genres
  storageAvailable, \* FALSE: every localStorage access throws
  store,            \* localStorage 'stories-theme': None, "light" or "dark"
  systemDark,       \* matchMedia('(prefers-color-scheme: dark)').matches
  phase,            \* "loading" until DOMContentLoaded has run new StoriesApp()
  stepsDone,        \* how many of the calls of init() returned
  docTheme,         \* data-theme attribute of the document element
  themeEvent,       \* what a themeChanged subscriber saw at the last delivery
  currentFilter,    \* this.currentFilter
  active,           \* indexes of the filter buttons carrying class 'active'
  hidden,           \* hidden[i]: card i carries class 'hidden'
  timers,           \* pending setTimeout callbacks, in creation order
  stories,          \* this.stories
  logged,           \* last "Showing N stories" console line (400 ms timer)
  status,           \* text of the #filter-status live region
  calls,            \* number of filterStories calls made so far
  inFlight,         \* filterStories calls since the last call made with no timer pending
  lastGenre,        \* argument of the latest filterStories call
  filterEvent,      \* what a filterChanged subscriber saw at the last delivery
  expect,           \* hidden marks a single filterStories call settles to on its own
  lastKey,          \* digit of the latest step when it is an Alt+digit keydown
  notifications,    \* the .notification elements in the document, by creation number
  shown,            \* number of showNotification calls so far
  removed,          \* removed[n]: how many times notification n was taken out
  toggleHist,       \* data-theme values before each of the latest consecutive toggles
  toggled,          \* toggleTheme has run at least once
  last              \* name of the latest step

vars ==
  <<doc, storageAvailable, store, systemDark, phase, stepsDone, docTheme,
    themeEvent, currentFilter, active, hidden, timers, stories, logged, status,
    calls, inFlight, lastGenre, filterEvent, expect, lastKey, notifications,
    shown, removed, toggleHist, toggled, last>>

themeVars == <<store, docTheme, themeEvent, toggleHist, toggled>>
filterVars ==
  <<currentFilter, active, hidden, timers, logged, status, calls, inFlight, lastGenre,
    filterEvent, expect>>
envVars == <<doc, storageAvailable>>
notifVars == <<notifications, shown, removed>>

NumCards == Len(doc.cards)
NumButtons == Len(doc.buttons)

(* ------------------------------------------------------------------ *)
(* Theme management                                                   *)
(* ------------------------------------------------------------------ *)
NoEvent == [theme |-> None, attr |-> None, stored |-> None, by |-> None]

\* matches ? 'dark' : 'light'
SystemPreference(matches) == IF matches THEN "dark" ELSE "light"

InitialThemeSystemFirst(savedTheme, systemPreference) == systemPreference

\* savedTheme || systemPreference
InitialTheme(savedTheme, systemPreference) ==
  IF savedTheme # None THEN savedTheme ELSE systemPreference

NewThemeAlwaysDark(attr) == "dark"

\* getAttribute('data-theme') || 'light', then the flip
NewTheme(attr) ==
  LET currentTheme == IF attr # None THEN attr ELSE "light"
  IN IF currentTheme = "light" THEN "dark" ELSE "light"

FollowsSystemAlways(savedTheme) == TRUE

\* the media-query listener's test: !localStorage.getItem('stories-theme')
FollowsSystem(savedTheme) == savedTheme = None

\* setTheme(theme): the attribute is set, then themeChanged is dispatched;
\* a subscriber sees the attribute and the store as they are at that moment
SetTheme(theme, by) ==
  /\ docTheme' = theme
  /\ themeEvent' = [theme |-> theme, attr |-> theme, stored |-> store, by |-> by]

AfterInitializeSaves(initialTheme) == IF storageAvailable THEN initialTheme ELSE store

\* the value localStorage holds after initializeTheme(): it only reads the key
AfterInitialize(initialTheme) == store

AfterSetItemStale(newTheme) == IF storageAvailable THEN docTheme ELSE store

\* the value localStorage holds after setItem('stories-theme', newTheme)
AfterSetItem(newTheme) == IF storageAvailable THEN newTheme ELSE store

\* toggleTheme(): setTheme(newTheme), then the preference is saved
ToggleTheme ==
  LET newTheme == NewTheme(docTheme)
  IN /\ SetTheme(newTheme, "toggleTheme")
     /\ store' = AfterSetItem(newTheme)
     /\ toggleHist' = IF Len(toggleHist) < 2 THEN Append(toggleHist, docTheme)
                      ELSE <<toggleHist[2], docTheme>>
     /\ toggled' = TRUE

(* ------------------------------------------------------------------ *)
(* Story data                                                         *)
(* ------------------------------------------------------------------ *)
\* the map callback of loadStoryData throws on card c
LoadThrows(c) == c.genres = Undefined \/ c.title = None \/ c.synopsis = None

\* the record loadStoryData builds for card i
StoryOf(i) ==
  LET c == doc.cards[i]
  IN [id |-> c.id, genres |-> Split(c.genres), title |-> c.title,
      synopsis |-> c.synopsis, element |-> i]

\* loadStoryData(): this.stories, or unchanged when the map throws
LoadStoryData ==
  IF \E i \in 1..NumCards : LoadThrows(doc.cards[i])
  THEN stories
  ELSE [i \in 1..NumCards |-> StoryOf(i)]

(* ------------------------------------------------------------------ *)
(* Startup                                                            *)
(* ------------------------------------------------------------------ *)
\* number of the calls of init() that return: initializeTheme throws when
\* localStorage is unavailable, loadStoryData (the sixth) on a card it cannot read
StepsCompleted ==
  IF ~storageAvailable THEN 0
  ELSE IF \E i \in 1..NumCards : LoadThrows(doc.cards[i]) THEN 5
  ELSE InitSteps

ThemeToggleListening == stepsDone >= 2
FilterListening == stepsDone >= 3
MediaListening == stepsDone >= 1
KeyboardListening == stepsDone >= InitSteps
StatusListening == stepsDone >= InitSteps

\* DOMContentLoaded: new StoriesApp() runs init()
Construct ==
  /\ phase = "loading"
  /\ phase' = "running"
  /\ stepsDone' = StepsCompleted
  /\ IF storageAvailable
       THEN SetTheme(InitialTheme(store, SystemPreference(systemDark)), "initializeTheme")
       ELSE UNCHANGED <<docTheme, themeEvent>>
  /\ stories' = IF storageAvailable THEN LoadStoryData ELSE stories
  /\ store' = AfterInitialize(InitialTheme(store, SystemPreference(systemDark)))
  /\ last' = "Construct"
  /\ lastKey' = NoKey
  /\ UNCHANGED <<toggleHist, toggled, systemDark>>
  /\ UNCHANGED filterVars
  /\ UNCHANGED envVars
  /\ UNCHANGED notifVars

\* click on .theme-toggle
ThemeToggleClick ==
  /\ phase = "running"
  /\ ThemeToggleListening
  /\ ToggleTheme
  /\ last' = "ThemeToggleClick"
  /\ lastKey' = NoKey
  /\ UNCHANGED <<systemDark, phase, stepsDone, stories>>
  /\ UNCHANGED filterVars
  /\ UNCHANGED envVars
  /\ UNCHANGED notifVars

\* keydown Alt+T
KeyAltT ==
  /\ phase = "running"
  /\ KeyboardListening
  /\ ToggleTheme
  /\ last' = "KeyAltT"
  /\ lastKey' = NoKey
  /\ UNCHANGED <<systemDark, phase, stepsDone, stories>>
  /\ UNCHANGED filterVars
  /\ UNCHANGED envVars
  /\ UNCHANGED notifVars

\* the OS color scheme changes; the listener added by initializeTheme runs
SystemChange ==
  /\ systemDark' = ~systemDark
  /\ IF MediaListening /\ storageAvailable /\ FollowsSystem(store)
       THEN SetTheme(SystemPreference(systemDark'), "mediaQuery")
       ELSE UNCHANGED <<docTheme, themeEvent>>
  /\ toggleHist' = << >>
  /\ last' = "SystemChange"
  /\ lastKey' = NoKey
  /\ UNCHANGED <<store, toggled, phase, stepsDone, stories>>
  /\ UNCHANGED filterVars
  /\ UNCHANGED envVars
  /\ UNCHANGED notifVars

(* ------------------------------------------------------------------ *)
(* Genre filtering                                                    *)
(* ------------------------------------------------------------------ *)
NoMessage == [count |-> -1, genre |-> Undefined]

\* genre === 'all' || cardGenres.some(cardGenre => cardGenre === genre)
ShouldShow(c, genre) ==
  LET cardGenres == Split(ToLowerCase(c.genres))
  IN genre = sAll \/ \E k \in 1..Len(cardGenres) : cardGenres[k] = genre

\* the timer filterStories(genre) schedules for card i (index i - 1)
CardTimer(i, genre) ==
  IF ShouldShow(doc.cards[i], genre)
  THEN [due |-> (i - 1) * Stagger, kind |-> "show", card |-> i, genre |-> genre, notif |-> 0]
  ELSE [due |-> HideDelay, kind |-> "hide", card |-> i, genre |-> genre, notif |-> 0]

\* the forEach of filterStories from card i on; it stops at a card whose
\* data-genres is absent (toLowerCase of undefined throws)
RECURSIVE ForEachCard(_, _)
ForEachCard(i, genre) ==
  IF i > NumCards THEN [timers |-> << >>, threw |-> FALSE]
  ELSE IF doc.cards[i].genres = Undefined THEN [timers |-> << >>, threw |-> TRUE]
  ELSE LET rest == ForEachCard(i + 1, genre)
       IN [timers |-> <<CardTimer(i, genre)>> \o rest.timers, threw |-> rest.threw]

\* filterStories(genre): the card timers, then the 400 ms count timer
FilterStories(genre) ==
  LET loop == ForEachCard(1, genre)
  IN IF loop.threw THEN loop
     ELSE [timers |-> Append(loop.timers,
                             [due |-> LogDelay, kind |-> "log", card |-> 0, genre |-> genre, notif |-> 0]),
           threw |-> FALSE]

\* the filterChanged listener of setupScreenReaderSupport
StatusTimer(genre) ==
  IF StatusListening
  THEN <<[due |-> StatusDelay, kind |-> "status", card |-> 0, genre |-> genre, notif |-> 0]>>
  ELSE << >>

RemoveAt(seq, k) == SubSeq(seq, 1, k - 1) \o SubSeq(seq, k + 1, Len(seq))

\* the class change a show or hide callback makes to the hidden marks h
ApplyCallback(h, t) ==
  IF t.kind = "show" THEN [h EXCEPT ![t.card] = FALSE]
  ELSE IF t.kind = "hide" THEN [h EXCEPT ![t.card] = TRUE]
  ELSE h

\* position in ts of the timer that runs first: earliest due, then oldest
FirstOf(ts) == CHOOSE k \in 1..Len(ts) :
  /\ \A j \in 1..Len(ts) : ts[k].due <= ts[j].due
  /\ \A j \in 1..(k - 1) : ts[j].due # ts[k].due

\* the hidden marks once the timers ts have all run with no further call
RECURSIVE RunTimers(_, _)
RunTimers(h, ts) ==
  IF ts = << >> THEN h
  ELSE RunTimers(ApplyCallback(h, ts[FirstOf(ts)]), RemoveAt(ts, FirstOf(ts)))

NoFilterEvent == [genre |-> Undefined, currentFilter |-> Undefined]

\* handleFilterClick(e) for filter button b
HandleFilterClick(b) ==
  LET genre == doc.buttons[b]
      call == FilterStories(genre)
  IN /\ active' = {b}
     /\ IF call.threw
          THEN /\ timers' = timers \o call.timers
               /\ UNCHANGED <<currentFilter, filterEvent>>
          ELSE /\ timers' = timers \o call.timers \o StatusTimer(genre)
               /\ currentFilter' = genre
               /\ filterEvent' = [genre |-> genre, currentFilter |-> currentFilter']
     /\ calls' = calls + 1
     /\ inFlight' = IF timers = << >> THEN 1 ELSE 2
     /\ lastGenre' = genre
     /\ expect' = IF genre = lastGenre
                  THEN [expect EXCEPT !.repeated = TRUE]
                  ELSE [hidden |-> RunTimers(hidden, timers'), repeated |-> FALSE]
     /\ UNCHANGED <<hidden, logged, status>>

\* the selection of genre stays within the bounds
CallAllowed(genre) ==
  \/ calls < MaxCalls
  \/ genre = lastGenre /\ calls < MaxCalls + MaxRepeats

\* click on filter button b
FilterClick(b) ==
  /\ phase = "running"
  /\ FilterListening
  /\ CallAllowed(doc.buttons[b])
  /\ HandleFilterClick(b)
  /\ last' = "FilterClick"
  /\ lastKey' = NoKey
  /\ UNCHANGED <<systemDark, phase, stepsDone, stories>>
  /\ UNCHANGED themeVars
  /\ UNCHANGED envVars
  /\ UNCHANGED notifVars

\* e.key >= '1' && e.key <= '6'
IsShortcutKey(n) == n >= 1 /\ n <= MaxShortcut

ShortcutButtonOffByOne(n) == n + 1

\* position of this.filterButtons[parseInt(e.key) - 1] among the buttons
ShortcutButton(n) == n

\* keydown Alt+n: this.filterButtons[n - 1], clicked when it exists
KeyAltN(n) ==
  /\ phase = "running"
  /\ KeyboardListening
  /\ IF IsShortcutKey(n) /\ ShortcutButton(n) <= NumButtons
       THEN /\ CallAllowed(doc.buttons[ShortcutButton(n)])
            /\ HandleFilterClick(ShortcutButton(n))
       ELSE UNCHANGED filterVars
  /\ last' = "KeyAltN"
  /\ lastKey' = n
  /\ UNCHANGED <<systemDark, phase, stepsDone, stories>>
  /\ UNCHANGED themeVars
  /\ UNCHANGED envVars
  /\ UNCHANGED notifVars

(* ------------------------------------------------------------------ *)
(* Notifications                                                      *)
(* ------------------------------------------------------------------ *)
StoryListening == stepsDone >= 4
\* setupErrorHandling() runs after the constructor returned
ErrorListening == stepsDone >= InitSteps

\* showNotification(message, duration): the existing notifications are
\* removed, a new one is appended and its auto-dismiss timer is started
ShowNotification(duration) ==
  /\ notifications' = {shown + 1}
  /\ shown' = shown + 1
  /\ removed' = Append([n \in 1..shown |->
                          IF n \in notifications THEN removed[n] + 1 ELSE removed[n]], 0)
  /\ timers' = Append(timers, [due |-> duration, kind |-> "dismiss", card |-> 0,
                                genre |-> Undefined, notif |-> shown + 1])

\* click on the read-more button of card i (or Enter / Space on the card):
\* handleReadMoreClick throws before showNotification on a card without title
ReadMoreClick(i) ==
  /\ phase = "running"
  /\ StoryListening
  /\ shown < MaxShown
  /\ IF doc.cards[i].title # None
       THEN ShowNotification(NotifyDuration)
       ELSE UNCHANGED <<notifications, shown, removed, timers>>
  /\ last' = "ReadMoreClick"
  /\ lastKey' = NoKey
  /\ UNCHANGED <<currentFilter, active, hidden, logged, status, calls, inFlight, lastGenre,
                 filterEvent, expect>>
  /\ UNCHANGED <<systemDark, phase, stepsDone, stories>>
  /\ UNCHANGED themeVars
  /\ UNCHANGED envVars

\* an uncaught error or unhandled rejection reaches the window listeners
WindowError ==
  /\ phase = "running"
  /\ ErrorListening
  /\ shown < MaxShown
  /\ ShowNotification(ErrorDuration)
  /\ last' = "WindowError"
  /\ lastKey' = NoKey
  /\ UNCHANGED <<currentFilter, active, hidden, logged, status, calls, inFlight, lastGenre,
                 filterEvent, expect>>
  /\ UNCHANGED <<systemDark, phase, stepsDone, stories>>
  /\ UNCHANGED themeVars
  /\ UNCHANGED envVars

(* ------------------------------------------------------------------ *)
(* Timers                                                             *)
(* ------------------------------------------------------------------ *)
\* document.querySelectorAll('.story-card:not(.hidden)').length
VisibleCount == Cardinality({i \in 1..NumCards : ~hidden[i]})

\* position of the timer that fires next: the first one that is due
NextTimer == CHOOSE k \in 1..Len(timers) :
  /\ timers[k].due = 0
  /\ \A j \in 1..(k - 1) : timers[j].due # 0

\* the class change a show or hide callback makes
AfterCallback(t) == ApplyCallback(hidden, t)

\* the outer callback of showNotification slides the notification out and
\* schedules its removal
AfterDismiss(t) ==
  IF t.kind = "dismiss"
  THEN <<[due |-> RemoveDelay, kind |-> "remove", card |-> 0, genre |-> Undefined,
          notif |-> t.notif]>>
  ELSE << >>

TimerRemovesUnguarded(n) == TRUE

\* if (notification.parentNode): the inner callback removes its own notification
\* only while it is still in the document
TimerRemoves(n) == n \in notifications

\* the first due timer's callback runs
FireTimer ==
  /\ \E k \in 1..Len(timers) : timers[k].due = 0
  /\ LET t == timers[NextTimer]
     IN /\ hidden' = AfterCallback(t)
        /\ logged' = IF t.kind = "log"
                      THEN [count |-> VisibleCount, genre |-> t.genre] ELSE logged
        /\ status' = IF t.kind = "status"
                      THEN [count |-> VisibleCount, genre |-> t.genre] ELSE status
        /\ timers' = RemoveAt(timers, NextTimer) \o AfterDismiss(t)
        /\ IF t.kind = "remove" /\ TimerRemoves(t.notif)
             THEN /\ notifications' = notifications \ {t.notif}
                  /\ removed' = [removed EXCEPT ![t.notif] = @ + 1]
             ELSE UNCHANGED <<notifications, removed>>
  /\ last' = "FireTimer"
  /\ lastKey' = NoKey
  /\ UNCHANGED <<currentFilter, active, calls, inFlight, lastGenre, filterEvent, expect>>
  /\ UNCHANGED <<systemDark, phase, stepsDone, stories, shown>>
  /\ UNCHANGED themeVars
  /\ UNCHANGED envVars

\* 100 ms pass with no timer due
Tick ==
  /\ timers # << >>
  /\ \A k \in 1..Len(timers) : timers[k].due > 0
  /\ timers' = [k \in 1..Len(timers) |-> [timers[k] EXCEPT !.due = @ - 1]]
  /\ last' = "Tick"
  /\ lastKey' = NoKey
  /\ UNCHANGED <<currentFilter, active, hidden, logged, status, calls, inFlight, lastGenre,
                 filterEvent, expect>>
  /\ UNCHANGED <<systemDark, phase, stepsDone, stories>>
  /\ UNCHANGED themeVars
  /\ UNCHANGED envVars
  /\ UNCHANGED notifVars

(* ------------------------------------------------------------------ *)
(* Specifications                                                     *)
(* ------------------------------------------------------------------ *)
Init ==
  /\ doc \in Documents
  /\ storageAvailable \in BOOLEAN
  /\ store \in {None, "light", "dark"}
  /\ systemDark \in BOOLEAN
  /\ phase = "loading"
  /\ stepsDone = 0
  /\ docTheme = None
  /\ themeEvent = NoEvent
  /\ currentFilter = sAll
  /\ active = {1}
  /\ hidden = [i \in 1..Len(doc.cards) |-> FALSE]
  /\ timers = << >>
  /\ stories = << >>
  /\ logged = NoMessage
  /\ status = NoMessage
  /\ calls = 0
  /\ inFlight = 0
  /\ lastGenre = Undefined
  /\ filterEvent = NoFilterEvent
  /\ expect = [hidden |-> hidden, repeated |-> FALSE]
  /\ lastKey = NoKey
  /\ notifications = {}
  /\ shown = 0
  /\ removed = << >>
  /\ toggleHist = << >>
  /\ toggled = FALSE
  /\ last = "Init"

Next ==
  \/ Construct
  \/ ThemeToggleClick
  \/ KeyAltT
  \/ SystemChange
  \/ \E b \in 1..NumButtons : FilterClick(b)
  \/ \E n \in Keys : KeyAltN(n)
  \/ \E i \in 1..NumCards : ReadMoreClick(i)
  \/ WindowError
  \/ FireTimer
  \/ Tick

Spec == Init /\ [][Next]_vars

\* theme management alone: startup, toggles and OS color-scheme changes
InitTheme == Init

NextTheme ==
  \/ Construct
  \/ ThemeToggleClick
  \/ KeyAltT
  \/ SystemChange

SpecTheme == InitTheme /\ [][NextTheme]_vars

\* filtering alone: startup with a working, empty preference store, filter
\* selections and timers
InitFilter ==
  /\ Init
  /\ storageAvailable
  /\ store = None
  /\ ~systemDark

NextFilter ==
  \/ Construct
  \/ \E b \in 1..NumButtons : FilterClick(b)
  \/ \E n \in Keys : KeyAltN(n)
  \/ FireTimer
  \/ Tick

SpecFilter == InitFilter /\ [][NextFilter]_vars

\* the Alt+digit shortcuts: selections made from the keyboard on the documents
\* with two and with seven filter buttons
InitKeys ==
  /\ InitFilter
  /\ doc \in {EmptyGenresDocument, ManyButtonsDocument}

NextKeys ==
  \/ Construct
  \/ \E n \in Keys : KeyAltN(n)
  \/ FireTimer
  \/ Tick

SpecKeys == InitKeys /\ [][NextKeys]_vars

\* notifications alone: startup, read-more clicks, window errors and timers
InitNotify ==
  /\ InitFilter
  /\ doc \in {ExampleDocument, NoTitleDocument}

NextNotify ==
  \/ Construct
  \/ \E i \in 1..NumCards : ReadMoreClick(i)
  \/ WindowError
  \/ FireTimer
  \/ Tick

SpecNotify == InitNotify /\ [][NextNotify]_vars

(* ------------------------------------------------------------------ *)
(* Properties                                                         *)
(* ------------------------------------------------------------------ *)
\* the genre tags of card i as the item registry holds them (loadStoryData)
GenreTags(i) == Range(Split(doc.cards[i].genres))

\* visible(I, F) = (F == "all") OR (F in I.genres)
Visible(i, F) == F = sAll \/ F \in GenreTags(i)

Readable(i) == doc.cards[i].genres # Undefined

Settled == phase = "running" /\ timers = << >>

\* C1: after a single filterStories(F) issued from a settled state has had all
\* of its timers fire, every item is visible iff F is "all" or one of its tags.
C1_SettledVisibility ==
  (Settled /\ inFlight = 1) =>
    \A i \in 1..NumCards : Readable(i) => (~hidden[i] <=> Visible(i, lastGenre))

\* C2: after filter selections that overlapped (a later call arrived while
\* timers of an earlier one were pending), once every timer has fired the
\* visible set is exactly the set the current filter dictates.
C2_LastWriteWins ==
  (Settled /\ inFlight = 2) =>
    \A i \in 1..NumCards : Readable(i) => (~hidden[i] <=> Visible(i, currentFilter))

\* the next callback to run is a hide of card i scheduled under another
\* filter than the current one, under which card i is visible
StaleHideDue(i) ==
  /\ \E k \in 1..Len(timers) : timers[k].due = 0
  /\ timers[NextTimer].kind = "hide"
  /\ timers[NextTimer].card = i
  /\ timers[NextTimer].genre # currentFilter
  /\ Readable(i)
  /\ Visible(i, currentFilter)

\* C3: a hide callback scheduled under filter A that fires after the controller
\* moved to filter B, under which the item is visible, does not hide the item.
C3_NoStaleHide ==
  [][\A i \in 1..NumCards :
       (StaleHideDue(i) /\ last' = "FireTimer") => hidden'[i] = hidden[i]]_vars

\* C4: two toggles in a row return the theme to the value it had before the
\* first, and the store then holds that theme (the one the second call wrote).
C4_ToggleTwice ==
  Len(toggleHist) = 2 => (docTheme = toggleHist[1] /\ store = toggleHist[1])

C4_Witness ==
  /\ Len(toggleHist) = 2
  /\ last \in {"ThemeToggleClick", "KeyAltT"}
  /\ docTheme = "dark"
  /\ store = "dark"

\* C5: when initializeTheme returns, the applied theme is the saved theme if
\* the store holds one, and otherwise dark or light as the system signal is.
C5_InitPrecedence ==
  [][(phase = "loading" /\ phase' = "running" /\ stepsDone' >= 1) =>
       docTheme' = IF store # None THEN store
                   ELSE IF systemDark THEN "dark" ELSE "light"]_vars

C5_Witness ==
  /\ last = "Construct"
  /\ stepsDone >= 1
  /\ store = "light"
  /\ systemDark
  /\ docTheme = "light"

\* C6: with the media listener installed, an OS color-scheme change switches
\* the applied theme to the new system value while the user never toggled and
\* nothing is saved, and leaves it unchanged once toggleTheme has run.
C6_FollowSystem ==
  [][(systemDark' # systemDark /\ MediaListening) =>
       IF toggled THEN docTheme' = docTheme
       ELSE (store = None =>
               docTheme' = IF systemDark' THEN "dark" ELSE "light")]_vars

C6_Witness ==
  /\ last = "SystemChange"
  /\ MediaListening
  /\ toggled
  /\ docTheme = "light"
  /\ systemDark

\* C7: when a subscriber receives the themeChanged event of a toggle, the
\* applied theme and the stored preference both equal the event's theme.
C7_EventSeesStore ==
  themeEvent.by = "toggleTheme" =>
    (themeEvent.attr = themeEvent.theme /\ themeEvent.stored = themeEvent.theme)

\* C8: the status message written for a filter change to G reports the number
\* of items visible under G (0 when none matches).
C8_StatusCount ==
  status # NoMessage =>
    status.count = Cardinality({i \in 1..NumCards : Visible(i, status.genre)})

\* C9: with the preference store unavailable, startup still applies the
\* system-preference theme and installs the listeners of the later steps.
C9_StorageUnavailable ==
  (phase = "running" /\ ~storageAvailable) =>
    (docTheme \in {"light", "dark"} /\ ThemeToggleListening /\ FilterListening)

\* card i has an id, a non-empty genre set, a title and a synopsis
WellFormed(i) ==
  LET c == doc.cards[i]
  IN /\ c.id # None
     /\ c.genres # Undefined
     /\ c.title # None
     /\ c.synopsis # None
     /\ \E g \in GenreTags(i) : g # sEmpty

RECURSIVE WellFormedFrom(_)
WellFormedFrom(i) ==
  IF i > NumCards THEN << >>
  ELSE IF WellFormed(i) THEN <<StoryOf(i)>> \o WellFormedFrom(i + 1)
  ELSE WellFormedFrom(i + 1)

\* C10: loadStoryData skips every malformed card, returns the well-formed ones
\* in document order, and the startup steps after it still run.
C10_SkipMalformed ==
  (phase = "running" /\ storageAvailable) =>
    (stories = WellFormedFrom(1) /\ stepsDone = InitSteps)

\* C11: initializeTheme writes nothing to the preference store, and the only
\* steps that change the stored value are runs of toggleTheme.
C11_InitNoWrite ==
  [][/\ (phase = "loading" /\ phase' = "running") => store' = store
     /\ store' # store => last' \in {"ThemeToggleClick", "KeyAltT"}]_vars

C11_Witness ==
  /\ last = "Construct"
  /\ MediaListening
  /\ store = None
  /\ docTheme = "dark"

\* C15: once initializeTheme has returned, whenever the preference store holds
\* a saved theme the applied data-theme equals it, whatever toggles and OS
\* color-scheme changes happened.
C15_ThemeMatchesStore ==
  (phase = "running" /\ MediaListening /\ store # None) => docTheme = store

C15_Witness ==
  /\ last = "SystemChange"
  /\ toggled
  /\ store = "dark"
  /\ docTheme = "dark"
  /\ ~systemDark

\* C12: filterStories(F) called again with the same F, before or after the
\* first call's timers fire, settles to the hidden marks the first call alone
\* would have settled to, from whatever state the first call was made in.
C12_Idempotent ==
  (Settled /\ expect.repeated) => hidden = expect.hidden

\* C13: after any filter selection exactly one filter button is active and its
\* genre is currentFilter, and a filterChanged subscriber finds currentFilter
\* already equal to the event's genre.
C13_OneActive ==
  /\ calls >= 1 =>
       (Cardinality(active) = 1 /\ \A b \in active : doc.buttons[b] = currentFilter)
  /\ filterEvent # NoFilterEvent => filterEvent.currentFilter = filterEvent.genre

\* C14: Alt+N with N in 1..6 and at least N filter buttons has the effect of a
\* click on the Nth button; any other digit leaves currentFilter, the active
\* button, the hidden marks and the timers as they were.
C14_Shortcut ==
  [][last' = "KeyAltN" =>
       IF lastKey' \in 1..6 /\ lastKey' <= NumButtons
       THEN /\ HandleFilterClick(lastKey')
            /\ currentFilter' = doc.buttons[lastKey']
            /\ active' = {lastKey'}
       ELSE UNCHANGED <<currentFilter, active, hidden, timers>>]_vars

C14_Witness ==
  /\ last = "KeyAltN"
  /\ lastKey = 5
  /\ currentFilter = sScifi
  /\ active = {5}

\* C16: at most one notification is in the document, no notification is
\* removed more than once, and a timer callback takes out no notification
\* other than the one it was created for.
C16_Notifications ==
  /\ [](Cardinality(notifications) <= 1)
  /\ [](\A n \in 1..shown : removed[n] <= 1)
  /\ [][last' = "FireTimer" =>
          \A n \in notifications \ notifications' : n = timers[NextTimer].notif]_vars

\* the removal timer of a replaced notification ran while a newer one is shown
C16_Witness ==
  /\ last = "FireTimer"
  /\ shown = 2
  /\ notifications = {2}
  /\ removed = <<1, 0>>
  /\ \A k \in 1..Len(timers) : timers[k].notif = 2

====
